---- MODULE Spec2Model ----
(***************************************************************************)
(* GeoUtils.raster_tools: the Raster adapter over rasterio.                *)
(*                                                                         *)
(* One Raster object (rst) is followed through construction, load, crop,   *)
(* shift, reproject, save and intersection.  Every method is an operator   *)
(* from the object and its arguments to an outcome record                  *)
(*   [outcome, exc, self, val, res, calls, mems]                           *)
(* (how the call ended, the exception type, the object afterwards, the     *)
(* kind of value returned, a Raster the call built, the library entry      *)
(* points it reached in order, the MemoryFiles it created); the actions    *)
(* apply these operators.  An exception raised inside rasterio carries the *)
(* prefix "rasterio.", one raised by the adapter's own statements none.    *)
(* Python's None is the empty tuple <<>> and a present value v is <<v>>.   *)
(* Coordinates are integers (exactly representable floats), pixel arrays   *)
(* are tuples of bands of rows.                                            *)
(***************************************************************************)
EXTENDS Integers, Sequences, FiniteSets, TLC

VARIABLES rst,    \* the Raster under observation, NoRaster before construction
          ret,    \* how the last call ended: op, args, outcome, exc, val, calls
          res,    \* the Raster object the last call returned, if it returned one
          files,  \* the dataset save wrote to the output path, None before
          nmem,   \* number of rasterio MemoryFiles created so far
          nops    \* number of calls made so far

vars == <<rst, ret, res, files, nmem, nops>>

-----------------------------------------------------------------------------
(* Bounds of the model *)

\* calls made in one behaviour, the constructor included
MaxOps == 3

-----------------------------------------------------------------------------
(* Python values *)

None == <<>>
Some(v) == <<v>>
IsNone(o) == Len(o) = 0
Val(o) == o[1]

Max(a, b) == IF a >= b THEN a ELSE b
Min(a, b) == IF a <= b THEN a ELSE b
\* ceiling of n / d for d > 0
CeilDiv(n, d) == -((-n) \div d)

\* Attributes from rasterio's DatasetReader object to be kept by default
default_attrs == <<"bounds", "count", "crs", "dataset_mask", "driver", "dtypes", "height",
                   "indexes", "name", "nodata", "res", "shape", "transform", "width">>

SeqToSet(s) == {s[i] : i \in 1..Len(s)}

-----------------------------------------------------------------------------
(* rasterio datasets.  A dataset is                                         *)
(*   [name, driver, dtype, nodata, width, height, count, crs, transform,    *)
(*    pix]                                                                  *)
(* with transform = <<a, b, c, d, e, f>> (x = a*col + b*row + c,            *)
(* y = d*col + e*row + f) and pix[band][row][col].                          *)

\* DatasetReader.meta
Meta(ds) == [driver |-> ds.driver, dtype |-> ds.dtype, nodata |-> ds.nodata,
             width |-> ds.width, height |-> ds.height, count |-> ds.count,
             crs |-> ds.crs, transform |-> ds.transform]

\* DatasetReader.bounds = BoundingBox(left, bottom, right, top)
DsBounds(ds) == LET t == ds.transform
                IN  <<t[3], t[6] + t[5] * ds.height, t[3] + t[1] * ds.width, t[6]>>

\* getattr(self.ds, attr)
GetAttr(ds, attr) ==
    CASE attr = "bounds"       -> DsBounds(ds)
      [] attr = "count"        -> ds.count
      [] attr = "crs"          -> ds.crs
      [] attr = "dataset_mask" -> <<"bound method dataset_mask of", ds.name>>
      [] attr = "driver"       -> ds.driver
      [] attr = "dtypes"       -> [i \in 1..ds.count |-> ds.dtype]
      [] attr = "height"       -> ds.height
      [] attr = "indexes"      -> [i \in 1..ds.count |-> i]
      [] attr = "name"         -> ds.name
      [] attr = "nodata"       -> ds.nodata
      [] attr = "res"          -> <<ds.transform[1], -ds.transform[5]>>
      [] attr = "shape"        -> <<ds.height, ds.width>>
      [] attr = "transform"    -> ds.transform
      [] attr = "width"        -> ds.width
      [] attr = "meta"         -> Meta(ds)

\* numpy arrays: [ndim, dtype, a] with a = the bands (one band when ndim = 2)
Array(ndim, dtype, a) == [ndim |-> ndim, dtype |-> dtype, a |-> a]
\* data.shape as (bands, rows, cols); a 2-D array has no band axis
NBands(arr) == Len(arr.a)
NRows(arr) == IF Len(arr.a) = 0 THEN 0 ELSE Len(arr.a[1])
NCols(arr) == IF NRows(arr) = 0 THEN 0 ELSE Len(arr.a[1][1])

\* DatasetReader.read(): None reads every band as a 3-D array, an int one band
\* as a 2-D array, a list the listed bands as a 3-D array; a band index that
\* the dataset does not have is an IndexError.  bands = [kind, idx].
ReadOk(ds, bands) == \A i \in 1..Len(bands.idx) : bands.idx[i] \in 1..ds.count
DsRead(ds, bands) ==
    CASE bands.kind = "None" -> Array(3, ds.dtype, ds.pix)
      [] bands.kind = "int"  -> Array(2, ds.dtype, <<ds.pix[bands.idx[1]]>>)
      [] bands.kind = "list" -> Array(3, ds.dtype, [i \in 1..Len(bands.idx) |-> ds.pix[bands.idx[i]]])

\* DatasetWriter.write(arr) with no indexes: arr must be a 3-D array of the
\* dataset's count, height and width; anything else (None included) raises.
WriteOk(meta, img) ==
    /\ ~IsNone(img)
    /\ Val(img).ndim = 3
    /\ NBands(Val(img)) = meta.count
    /\ meta.count >= 1 /\ meta.height >= 1 /\ meta.width >= 1
    /\ NRows(Val(img)) = meta.height
    /\ NCols(Val(img)) = meta.width

\* the dataset a MemoryFile named name holds after open(**meta) and write(img)
Written(name, meta, img) ==
    [name |-> name, driver |-> meta.driver, dtype |-> meta.dtype, nodata |-> meta.nodata,
     width |-> meta.width, height |-> meta.height, count |-> meta.count,
     crs |-> meta.crs, transform |-> meta.transform, pix |-> Val(img).a]

-----------------------------------------------------------------------------
(* The file on disk that rasters are read from *)

InPath == "a.tif"
DiskPix == << << <<1, 2>>, <<3, 4>> >>, << <<5, 6>>, <<7, 8>> >> >>
DiskDs(name) ==
    [name |-> name, driver |-> "GTiff", dtype |-> "uint8", nodata |-> Some(0),
     width |-> 2, height |-> 2, count |-> 2, crs |-> "EPSG:32645",
     transform |-> <<2, 0, 0, 0, -2, 4>>, pix |-> DiskPix]

-----------------------------------------------------------------------------
(* Raster objects *)

NoRaster == [alive |-> FALSE]

\* outcome records of a call
Raise(exc, self, calls, mems) ==
    [outcome |-> "raise", exc |-> exc, self |-> self, val |-> "", res |-> NoRaster,
     calls |-> calls, mems |-> mems]
Return(val, self, r, calls, mems) ==
    [outcome |-> "return", exc |-> "", self |-> self, val |-> val, res |-> r,
     calls |-> calls, mems |-> mems]

\* Raster._read_attrs
read_attrs(self, attrs) ==
    LET given == IF IsNone(attrs) THEN default_attrs
                 ELSE Val(attrs) \o SelectSeq(default_attrs, LAMBDA a : a \notin SeqToSet(Val(attrs)))
        names == SeqToSet(given)
    IN  [self EXCEPT !.saved_attrs = given,
                     !.attr = [n \in (DOMAIN self.attr) \cup names |->
                                  IF n \in names THEN GetAttr(self.ds, n) ELSE self.attr[n]]]

\* Raster.load
load(self, bands) ==
    IF ~ReadOk(self.ds, bands)
    THEN Raise("rasterio.IndexError", self, <<"ds.read">>, 0)
    ELSE LET d == DsRead(self.ds, bands)
         IN  Return("None",
                    [self EXCEPT !.data = Some(d),
                                 !.nbands = Some(IF d.ndim = 3 THEN NBands(d) ELSE 1)],
                    NoRaster, <<"ds.read">>, 0)

\* os.path.abspath of a relative path
abspath(path) == "/cwd/" \o path

\* the instance before __init__ runs: the class attributes filename = None and
\* matches_disk = None, and no instance attribute yet
NewInstance ==
    [alive |-> TRUE, filename |-> None, matches_disk |-> "None", memfile |-> 0,
     ds |-> DiskDs(0), saved_attrs |-> <<>>, attr |-> <<>>,
     data |-> None, nbands |-> None, isLoaded |-> FALSE]

\* Raster.__init__(filename, attrs, load_data, bands); filename = [type, path, mem]
\* (mem: the dataset a MemoryFile argument holds), k = name of the MemoryFile
\* a path is read into
RasterInit(filename, attrs, load_data, bands, k) ==
    IF filename.type \notin {"str", "MemoryFile"}
    THEN \* isinstance(filename, np.array): np.array is a function, not a type
         Raise("TypeError", NoRaster, <<>>, 0)
    ELSE IF filename.type = "str" /\ filename.path # InPath
    THEN Raise("FileNotFoundError", NoRaster, <<"open">>, 0)
    ELSE
    LET fromDisk == filename.type = "str"
        ds   == IF fromDisk THEN DiskDs(k) ELSE filename.mem
        s0   == [NewInstance EXCEPT !.filename = IF fromDisk THEN Some(abspath(filename.path)) ELSE None,
                                    !.memfile = ds.name,
                                    !.ds = ds]
        s1   == read_attrs(s0, attrs)
        opened == IF fromDisk THEN <<"open", "MemoryFile", "memfile.open">> ELSE <<"memfile.open">>
        made == IF fromDisk THEN 1 ELSE 0
    IN  IF load_data
        THEN LET l == load(s1, bands)
             IN  IF l.outcome = "raise"
                 THEN Raise(l.exc, NoRaster, opened \o l.calls, made)
                 ELSE Return("Raster",
                             [l.self EXCEPT !.isLoaded = TRUE, !.matches_disk = "True"],
                             NoRaster, opened \o l.calls, made)
        ELSE Return("Raster",
                    [s1 EXCEPT !.data = None, !.nbands = None, !.isLoaded = FALSE],
                    NoRaster, opened, made)

-----------------------------------------------------------------------------
(* Library geometry: rasterio.mask.mask, rasterio.windows.from_bounds,      *)
(* rasterio.transform.from_bounds and rasterio.warp.reproject, as the       *)
(* adapter calls them.  Boxes are <<xmin, ymin, xmax, ymax>>.               *)

\* nearest-neighbour value of the destination pixel (i, j) under transform dt
\* in the source band under transform st; 0 where the source has no pixel.
\* Pixel centres are compared in doubled coordinates to stay in the integers.
Nearest(band, st, dt, i, j) ==
    LET x2 == 2 * dt[3] + (2 * j - 1) * dt[1]
        y2 == 2 * dt[6] + (2 * i - 1) * dt[5]
        c0 == (x2 - 2 * st[3]) \div (2 * st[1])
        r0 == (2 * st[6] - y2) \div (2 * (-st[5]))
    IN  IF r0 + 1 \in 1..Len(band) /\ c0 + 1 \in 1..Len(band[1])
        THEN band[r0 + 1][c0 + 1] ELSE 0

\* the bands of `a` resampled onto an h x w grid under transform dt
Resample(a, st, dt, h, w) ==
    [b \in 1..Len(a) |-> [i \in 1..h |-> [j \in 1..w |-> Nearest(a[b], st, dt, i, j)]]]

\* rasterio.mask.mask(ds, [box], crop=True, all_touched=True): the window of
\* pixels the box touches, clipped to the dataset; [ok, img, tfm]
Mask(ds, box) ==
    LET t  == ds.transform
        c0 == Max(0, (box[1] - t[3]) \div t[1])
        c1 == Min(ds.width, CeilDiv(box[3] - t[3], t[1]))
        r0 == Max(0, (t[6] - box[4]) \div (-t[5]))
        r1 == Min(ds.height, CeilDiv(t[6] - box[2], -t[5]))
    IN  IF c1 <= c0 \/ r1 <= r0
        THEN [ok |-> FALSE, img |-> Array(3, ds.dtype, <<>>), tfm |-> t]
        ELSE [ok |-> TRUE,
              img |-> Array(3, ds.dtype,
                            [b \in 1..ds.count |-> [i \in 1..(r1 - r0) |-> [j \in 1..(c1 - c0) |->
                                ds.pix[b][r0 + i][c0 + j]]]]),
              tfm |-> <<t[1], t[2], t[3] + c0 * t[1], t[4], t[5], t[6] + r0 * t[5]>>]

\* int(rasterio.windows.from_bounds(box, transform).width), .height
WindowWidth(box, t) == (box[3] - box[1]) \div t[1]
WindowHeight(box, t) == (box[4] - box[2]) \div (-t[5])

\* rasterio.transform.from_bounds(west, south, east, north, width, height)
TransformFromBounds(box, w, h) ==
    <<(box[3] - box[1]) \div w, 0, box[1], 0, -((box[4] - box[2]) \div h), box[4]>>

\* the toy projection between the two coordinate systems of the model: a
\* false easting
Easting(crs) == IF crs = "EPSG:32645" THEN 0 ELSE 1
ProjectTransform(t, src_crs, dst_crs) ==
    <<t[1], t[2], t[3] + Easting(dst_crs) - Easting(src_crs), t[4], t[5], t[6]>>

\* rasterio.warp.reproject(source, destination=None, src_transform, src_crs,
\* dst_crs, dst_transform=None, dst_resolution=None): [ok, img, tfm].
\* Without a destination the output grid covers the source extent at
\* dst_resolution (or the source's pixel size); with a destination array and
\* no dst_transform the grid is fitted to the source extent.
Warp(source, destination, src_transform, src_crs, dst_crs, dst_transform, dst_resolution) ==
    IF IsNone(source) THEN [ok |-> FALSE, img |-> None, tfm |-> None]
    ELSE
    LET src  == Val(source)
        st   == ProjectTransform(src_transform, src_crs, dst_crs)
        box  == <<st[3], st[6] + st[5] * NRows(src), st[3] + st[1] * NCols(src), st[6]>>
        res_ == IF IsNone(dst_resolution) THEN <<st[1], -st[5]>>
                ELSE <<Val(dst_resolution), Val(dst_resolution)>>
        w    == IF IsNone(destination) THEN CeilDiv(box[3] - box[1], res_[1]) ELSE NCols(Val(destination))
        h    == IF IsNone(destination) THEN CeilDiv(box[4] - box[2], res_[2]) ELSE NRows(Val(destination))
        dt   == IF ~IsNone(dst_transform) THEN Val(dst_transform)
                ELSE IF IsNone(destination) THEN <<res_[1], 0, box[1], 0, -res_[2], box[4]>>
                ELSE TransformFromBounds(box, w, h)
        dty  == IF IsNone(destination) THEN src.dtype ELSE Val(destination).dtype
    IN  IF ~IsNone(destination) /\ NBands(Val(destination)) # NBands(src)
        THEN [ok |-> FALSE, img |-> None, tfm |-> None]
        ELSE [ok |-> TRUE, img |-> Some(Array(3, dty, Resample(src.a, st, dt, h, w))), tfm |-> Some(dt)]

\* np.zeros / np.ones of shape (n, h, w)
Full(n, h, w, dtype, v) == Array(3, dtype, [b \in 1..n |-> [i \in 1..h |-> [j \in 1..w |-> v]]])

-----------------------------------------------------------------------------
(* Raster methods that change the object *)

\* _update with the handle replaced before the pixels are written
update_handle_first(self, imgdata, metadata, k) ==
    LET img  == IF IsNone(imgdata) THEN self.data ELSE imgdata
        meta == Val(metadata)
        s0   == [self EXCEPT !.memfile = k, !.ds = [self.ds EXCEPT !.name = k], !.matches_disk = "False"]
    IN  IF ~WriteOk(meta, img)
        THEN Raise("rasterio.ValueError", s0, <<"MemoryFile", "memfile.open", "ds.write">>, 1)
        ELSE LET s1 == read_attrs([s0 EXCEPT !.ds = Written(k, meta, img)], None)
                 cs == <<"MemoryFile", "memfile.open", "ds.write", "memfile.open">>
             IN  IF s1.isLoaded
                 THEN LET l == load(s1, [kind |-> "None", idx |-> <<>>])
                      IN  Return("None", l.self, NoRaster, cs \o l.calls, 1)
                 ELSE Return("None", s1, NoRaster, cs, 1)

\* Raster._update(imgdata, metadata); k = name of the new MemoryFile
update(self, imgdata, metadata, k) ==
    IF IsNone(metadata)
    THEN \* self.metadata is no attribute of a Raster
         Raise("AttributeError", self, <<"MemoryFile">>, 1)
    ELSE
    LET img  == IF IsNone(imgdata) THEN self.data ELSE imgdata
        meta == Val(metadata)
    IN  IF ~WriteOk(meta, img)
        THEN Raise("rasterio.ValueError", self, <<"MemoryFile", "memfile.open", "ds.write">>, 1)
        ELSE LET s1 == read_attrs([self EXCEPT !.memfile = k, !.ds = Written(k, meta, img)], None)
                 s2 == [s1 EXCEPT !.matches_disk = "False"]
                 cs == <<"MemoryFile", "memfile.open", "ds.write", "memfile.open">>
             IN  IF s2.isLoaded
                 THEN LET l == load(s2, [kind |-> "None", idx |-> <<>>])
                      IN  Return("None", l.self, NoRaster, cs \o l.calls, 1)
                 ELSE Return("None", s2, NoRaster, cs, 1)

\* shift with the offset written over the origin instead of added to it
shift_sets_origin(self, xoff, yoff, k) ==
    LET t    == self.attr["transform"]
        meta == [Meta(self.ds) EXCEPT !.transform = <<t[1], t[2], xoff, t[4], t[5], yoff>>]
    IN  update(self, None, Some(meta), k)

\* Raster.shift(xoff, yoff)
shift(self, xoff, yoff, k) ==
    LET t    == self.attr["transform"]
        meta == [Meta(self.ds) EXCEPT !.transform = <<t[1], t[2], t[3] + xoff, t[4], t[5], t[6] + yoff>>]
    IN  update(self, None, Some(meta), k)

\* Raster.crop(cropGeom, mode); cropGeom = [type, box]
crop(self, cropGeom, mode, k) ==
    IF mode \notin {"match_extent", "match_pixel"} THEN Raise("AssertionError", self, <<>>, 0)
    ELSE IF cropGeom.type = "Vector" THEN Raise("NotImplementedError", self, <<>>, 0)
    ELSE IF cropGeom.type \notin {"Raster", "list", "tuple"} THEN Raise("ValueError", self, <<>>, 0)
    ELSE
    LET box  == cropGeom.box
        meta == Meta(self.ds)
    IN  IF mode = "match_pixel"
        THEN LET m == Mask(self.ds, box)
             IN  IF ~m.ok THEN Raise("rasterio.ValueError", self, <<"mask.mask">>, 0)
                 ELSE LET u == update(self, Some(m.img),
                                      Some([meta EXCEPT !.height = NRows(m.img), !.width = NCols(m.img),
                                                        !.transform = m.tfm]), k)
                      IN  [u EXCEPT !.calls = <<"mask.mask">> \o u.calls]
        ELSE LET t          == self.attr["transform"]
                 new_height == WindowHeight(box, t)
                 new_width  == WindowWidth(box, t)
             IN  IF new_height = 0 \/ new_width = 0
                 THEN Raise("ZeroDivisionError", self, <<"windows.from_bounds", "transform.from_bounds">>, 0)
                 ELSE IF IsNone(self.data)
                 THEN \* self.data.dtype
                      Raise("AttributeError", self, <<"windows.from_bounds", "transform.from_bounds">>, 0)
                 ELSE
                 LET new_tfm == TransformFromBounds(box, new_width, new_height)
                     new_img == Full(IF self.isLoaded THEN Val(self.nbands) ELSE self.attr["count"],
                                     new_height, new_width, Val(self.data).dtype, 0)
                     w  == Warp(self.data, Some(new_img), t, self.attr["crs"], self.attr["crs"],
                                Some(new_tfm), None)
                     cs == <<"windows.from_bounds", "transform.from_bounds", "warp.reproject">>
                 IN  IF ~w.ok THEN Raise("rasterio.ValueError", self, cs, 0)
                     ELSE LET u == update(self, w.img,
                                          Some([meta EXCEPT !.height = new_height, !.width = new_width,
                                                            !.transform = Val(w.tfm)]), k)
                          IN  [u EXCEPT !.calls = cs \o u.calls]

-----------------------------------------------------------------------------
(* Raster methods that build or write other objects *)

\* CRS.from_epsg
from_epsg(n) == "EPSG:" \o ToString(n)

KnownCRS == {"EPSG:32645", "EPSG:4326"}

\* Raster.from_array(data, transform, crs, nodata); transform = [type, t],
\* crs = [type, epsg, s]; k = name of the new MemoryFile
from_array(data, transform, crs, nodata, k) ==
    IF transform.type \notin {"Affine", "tuple"}
    THEN Raise("ValueError", NoRaster, <<>>, 0)
    ELSE
    LET crs_  == IF crs.type = "int" THEN from_epsg(crs.epsg) ELSE crs.s
        data3 == IF data.ndim < 3 THEN Array(3, data.dtype, data.a) ELSE data
        meta  == [driver |-> "GTiff", dtype |-> data3.dtype, nodata |-> nodata,
                  width |-> NCols(data3), height |-> NRows(data3), count |-> NBands(data3),
                  crs |-> crs_, transform |-> transform.t]
        cs    == <<"MemoryFile", "rio.open", "ds.write">>
    IN  IF ~WriteOk(meta, Some(data3))
        THEN Raise("rasterio.ValueError", NoRaster, cs, 1)
        ELSE LET o == RasterInit([type |-> "MemoryFile", path |-> "", mem |-> Written(k, meta, Some(data3))],
                                 None, TRUE, [kind |-> "None", idx |-> <<>>], k)
             IN  [o EXCEPT !.calls = cs \o o.calls, !.mems = 1]

\* CRS.from_user_input; dst_crs = [type, epsg, s]
from_user_input(dst_crs) ==
    IF dst_crs.type = "int" THEN Some(from_epsg(dst_crs.epsg))
    ELSE IF dst_crs.s \in KnownCRS THEN Some(dst_crs.s)
    ELSE None

\* reproject with the size/resolution check made after the CRS is parsed
reproject_checks_late(self, dst_crs, dst_size, dst_bounds, dst_res, nodata, dtype, k) ==
    IF IsNone(from_user_input(dst_crs))
    THEN Raise("rasterio.CRSError", self, <<"CRS.from_user_input">>, 0)
    ELSE Raise("ValueError", self, <<"CRS.from_user_input">>, 0)

\* Raster.reproject(dst_crs, dst_size, dst_bounds, dst_res, nodata, dtype);
\* k = name of the MemoryFile of the new Raster
reproject(self, dst_crs, dst_size, dst_bounds, dst_res, nodata, dtype, k) ==
    IF ~IsNone(dst_size) /\ ~IsNone(dst_res) THEN Raise("ValueError", self, <<>>, 0)
    ELSE IF IsNone(from_user_input(dst_crs))
    THEN Raise("rasterio.CRSError", self, <<"CRS.from_user_input">>, 0)
    ELSE IF ~IsNone(dst_bounds)
    THEN \* "if not opt_npx and not opt_res": opt_npx is defined nowhere.  The
         \* statements that use dst_bounds further down are never reached.
         Raise("NameError", self, <<"CRS.from_user_input">>, 0)
    ELSE
    LET crs_ == Val(from_user_input(dst_crs))
        dest == IF ~IsNone(dst_res) \/ IsNone(dst_size) THEN None
                ELSE Some(Full(self.attr["count"], Val(dst_size)[2], Val(dst_size)[1], "float64", 1))
        w    == Warp(self.data, dest, self.attr["transform"], self.attr["crs"], crs_, None, dst_res)
        cs   == <<"CRS.from_user_input", "warp.reproject">>
    IN  IF ~w.ok THEN Raise("rasterio.ValueError", self, cs, 0)
        ELSE LET o == from_array(Val(w.img), [type |-> "Affine", t |-> Val(w.tfm)],
                                 [type |-> "CRS", epsg |-> 0, s |-> crs_], nodata, k)
             IN  IF o.outcome = "raise"
                 THEN Raise(o.exc, self, cs \o o.calls, o.mems)
                 ELSE Return("Raster", self, o.self, cs \o o.calls, o.mems)

\* Raster.save(filename, driver, dtype, blank_value); blank_value = None or
\* Some([type, v]).  The outcome carries the file the call left on disk.
save(self, filename, driver, dtype, blank_value) ==
    IF IsNone(dtype) /\ IsNone(self.data)
    THEN \* self.data.dtype
         Raise("AttributeError", self, <<>>, 0) @@ [file |-> None]
    ELSE IF IsNone(self.data) /\ IsNone(blank_value)
    THEN \* return AttributeError(...)
         Return("AttributeError", self, NoRaster, <<>>, 0) @@ [file |-> None]
    ELSE IF ~IsNone(blank_value) /\ Val(blank_value).type \notin {"int", "float"}
    THEN Raise("ValueError", self, <<>>, 0) @@ [file |-> None]
    ELSE
    LET save_data == IF ~IsNone(blank_value)
                     THEN Full(self.ds.count, self.ds.height, self.ds.width, "float64", Val(blank_value).v)
                     ELSE Val(self.data)
        meta == [Meta(self.ds) EXCEPT !.driver = driver, !.dtype = save_data.dtype]
        cs   == <<"rio.open", "dst.write">>
    IN  IF ~WriteOk(meta, Some(save_data))
        THEN \* the dataset is created when it is opened for writing
             Raise("rasterio.ValueError", self, cs, 0)
                @@ [file |-> Some(Written(filename, meta,
                                          Some(Full(meta.count, meta.height, meta.width, meta.dtype, 0))))]
        ELSE Return("None", self, NoRaster, cs, 0)
                @@ [file |-> Some(Written(filename, meta, Some(save_data)))]

-----------------------------------------------------------------------------
(* Raster.intersection.  Polygons are tuples of vertices; the empty        *)
(* geometry is the empty tuple.                                             *)

SetMin(S) == CHOOSE x \in S : \A y \in S : x <= y
SetMax(S) == CHOOSE x \in S : \A y \in S : x >= y

\* proj_tools.bounds2poly(bounds): the rectangle of (xmin, ymin, xmax, ymax)
bounds2poly(b) == << <<b[1], b[2]>>, <<b[3], b[2]>>, <<b[3], b[4]>>, <<b[1], b[4]>> >>

\* shapely: geometry.bounds = (minx, miny, maxx, maxy), () when empty
PolyBounds(p) ==
    IF Len(p) = 0 THEN <<>>
    ELSE <<SetMin({p[i][1] : i \in 1..Len(p)}), SetMin({p[i][2] : i \in 1..Len(p)}),
           SetMax({p[i][1] : i \in 1..Len(p)}), SetMax({p[i][2] : i \in 1..Len(p)})>>

\* shapely: area of an axis-parallel rectangle, 0 for a line, a point and
\* the empty geometry
PolyArea(p) ==
    IF Len(p) = 0 THEN 0
    ELSE LET b == PolyBounds(p) IN (b[3] - b[1]) * (b[4] - b[2])

\* shapely: poly1.intersection(poly2) of two axis-parallel rectangles: a
\* rectangle, the shared edge or corner when they only touch, else empty
PolyIntersection(p, q) ==
    LET a == PolyBounds(p)
        b == PolyBounds(q)
        x0 == Max(a[1], b[1])
        y0 == Max(a[2], b[2])
        x1 == Min(a[3], b[3])
        y1 == Min(a[4], b[4])
    IN  IF x0 > x1 \/ y0 > y1 THEN <<>>
        ELSE IF x0 = x1 /\ y0 = y1 THEN << <<x0, y0>> >>
        ELSE IF x0 = x1 \/ y0 = y1 THEN << <<x0, y0>>, <<x1, y1>> >>
        ELSE bounds2poly(<<x0, y0, x1, y1>>)

\* Raster.intersection(rst); other = [type, path, r] (a path, or the Raster
\* r); k = name of the MemoryFile a path is read into.  The outcome carries
\* the value returned: the extent, or <<0>> for the integer 0.
intersection(self, other, k) ==
    LET o == IF other.type = "str"
             THEN RasterInit([type |-> "str", path |-> other.path, mem |-> DiskDs(0)], None, FALSE,
                             [kind |-> "None", idx |-> <<>>], k)
             ELSE Return("Raster", other.r, NoRaster, <<>>, 0)
    IN  IF o.outcome = "raise" THEN Raise(o.exc, self, o.calls, o.mems) @@ [value |-> <<>>]
        ELSE
        LET rst_ == o.self
            same_proj == TRUE
            poly1 == bounds2poly(self.attr["bounds"])
            poly2 == bounds2poly(rst_.attr["bounds"])
            cs    == o.calls \o <<"bounds2poly", "bounds2poly">>
        IN  IF ~same_proj THEN Raise("NotImplementedError", self, cs, o.mems) @@ [value |-> <<>>]
            ELSE LET intersect == PolyIntersection(poly1, poly2)
                     extent    == PolyBounds(intersect)
                 IN  IF PolyArea(intersect) = 0
                     THEN Return("int", self, NoRaster, cs \o <<"warnings.warn">>, o.mems)
                            @@ [value |-> <<0>>]
                     ELSE Return("tuple", self, NoRaster, cs, o.mems) @@ [value |-> extent]

-----------------------------------------------------------------------------
(* Inputs *)

BandsNone == [kind |-> "None", idx |-> <<>>]
BandsInt(i) == [kind |-> "int", idx |-> <<i>>]
BandsList(l) == [kind |-> "list", idx |-> l]
BandsArgs == {BandsNone, BandsInt(1), BandsList(<<2, 1>>), BandsList(<<3>>)}

PathArg(p) == [type |-> "str", path |-> p, mem |-> DiskDs(0)]
MemArg == [type |-> "MemoryFile", path |-> "", mem |-> DiskDs(0)]
OtherArg(t) == [type |-> t, path |-> "", mem |-> DiskDs(0)]

InitCall(fn, at, ld, b) == [filename |-> fn, attrs |-> at, load_data |-> ld, bands |-> b]
InitCalls ==
    {InitCall(PathArg(InPath), None, TRUE, b) : b \in BandsArgs}
    \cup {InitCall(PathArg(InPath), Some(<<"meta">>), ld, BandsNone) : ld \in BOOLEAN}
    \cup {InitCall(PathArg(InPath), None, FALSE, BandsNone),
          InitCall(PathArg("missing.tif"), None, TRUE, BandsNone),
          InitCall(MemArg, None, TRUE, BandsNone),
          InitCall(MemArg, None, FALSE, BandsNone),
          InitCall(OtherArg("ndarray"), None, TRUE, BandsNone),
          InitCall(OtherArg("float"), None, FALSE, BandsNone),
          InitCall(OtherArg("NoneType"), None, TRUE, BandsNone)}

TupleArg(t) == [type |-> "tuple", t |-> t]
AffineArg(t) == [type |-> "Affine", t |-> t]
EpsgArg(n) == [type |-> "int", epsg |-> n, s |-> ""]
CrsArg(c) == [type |-> "CRS", epsg |-> 0, s |-> c]
FromArrayCall(d, t, c, nd) == [data |-> d, transform |-> t, crs |-> c, nodata |-> nd]
FromArrayCalls ==
    {FromArrayCall(Array(2, "uint8", << << <<1, 2>>, <<3, 4>> >> >>), TupleArg(<<2, 0, 0, 0, -2, 4>>),
                   EpsgArg(32645), None),
     FromArrayCall(Array(3, "float32", << << <<1>> >>, << <<2>> >> >>), AffineArg(<<1, 0, 1, 0, -1, 3>>),
                   CrsArg("EPSG:4326"), Some(0)),
     FromArrayCall(Array(2, "uint8", << << <<1, 2>>, <<3, 4>> >> >>), [type |-> "list", t |-> <<2, 0, 0, 0, -2, 4>>],
                   EpsgArg(32645), None)}

XOffs == {-1, 2}
YOffs == {0, 1}

Geom(t, box) == [type |-> t, box |-> box]
CropCall(g, m) == [cropGeom |-> g, mode |-> m]
CropCalls ==
    {CropCall(g, m) : g \in {Geom("list", <<0, 0, 2, 2>>), Geom("tuple", <<1, 1, 4, 4>>),
                             Geom("Raster", <<2, 2, 6, 6>>), Geom("list", <<8, 8, 10, 10>>)},
                      m \in {"match_pixel", "match_extent"}}
    \cup {CropCall(Geom("Vector", <<0, 0, 0, 0>>), "match_pixel"),
          CropCall(Geom("str", <<0, 0, 0, 0>>), "match_pixel"),
          CropCall(Geom("list", <<0, 0, 2, 2>>), "nearest")}

BoxArg(t) == Some([type |-> t, box |-> <<0, 0, 2, 2>>])
ReprojectCall(c, sz, bb, rs, nd, dt) ==
    [dst_crs |-> c, dst_size |-> sz, dst_bounds |-> bb, dst_res |-> rs, nodata |-> nd, dtype |-> dt]
ReprojectCalls ==
    {ReprojectCall(c, sz, None, rs, None, None) :
        c \in {EpsgArg(32645), CrsArg("EPSG:4326")}, sz \in {None, Some(<<1, 1>>)}, rs \in {None, Some(1)}}
    \cup {ReprojectCall(CrsArg("EPSG:4326"), sz, bb, None, None, None) :
            sz \in {None, Some(<<1, 1>>)}, bb \in {BoxArg("BoundingBox"), BoxArg("dict")}}
    \cup {ReprojectCall(CrsArg("EPSG:4326"), None, BoxArg("dict"), Some(1), Some(0), Some("float32")),
          ReprojectCall(CrsArg("EPSG:4326"), Some(<<1, 1>>), BoxArg("BoundingBox"), Some(1), None, None),
          ReprojectCall([type |-> "str", epsg |-> 0, s |-> "bogus"], None, None, None, None, None),
          ReprojectCall([type |-> "str", epsg |-> 0, s |-> "bogus"], Some(<<1, 1>>), None, Some(1), None, None)}

DtypeArgs == {None, Some("float32")}
BlankArgs == {None, Some([type |-> "int", v |-> 7]), Some([type |-> "float", v |-> 2]),
              Some([type |-> "str", v |-> 0])}
OutPath == "out.tif"

\* the other raster of intersection: a Raster over a dataset in memory
OtherDs(crs, t) == [DiskDs(0) EXCEPT !.crs = crs, !.transform = t]
RasterArg(crs, t) ==
    [type |-> "Raster", path |-> "",
     r |-> RasterInit([type |-> "MemoryFile", path |-> "", mem |-> OtherDs(crs, t)], None, FALSE,
                      BandsNone, 0).self]
IntersectionArgs ==
    {[type |-> "str", path |-> InPath, r |-> NoRaster],
     [type |-> "str", path |-> "missing.tif", r |-> NoRaster],
     RasterArg("EPSG:32645", <<1, 0, 3, 0, -1, 5>>),
     RasterArg("EPSG:32645", <<2, 0, 4, 0, -2, 4>>),
     RasterArg("EPSG:32645", <<2, 0, 8, 0, -2, 12>>),
     RasterArg("EPSG:4326", <<2, 0, 0, 0, -2, 4>>)}

Outcome(op, args, o) ==
    [op |-> op, args |-> args, outcome |-> o.outcome, exc |-> o.exc, val |-> o.val,
     calls |-> o.calls]

-----------------------------------------------------------------------------
(* Actions *)

Init ==
    /\ rst = NoRaster
    /\ ret = [op |-> "", args |-> <<>>, outcome |-> "", exc |-> "", val |-> "", calls |-> <<>>]
    /\ res = NoRaster
    /\ files = None
    /\ nmem = 0
    /\ nops = 0

\* r = Raster(filename, attrs, load_data, bands)
Construct ==
    /\ ~rst.alive
    /\ nops < MaxOps
    /\ \E a \in InitCalls :
          LET o == RasterInit(a.filename, a.attrs, a.load_data, a.bands, nmem + 1)
          IN  /\ rst' = o.self
              /\ ret' = Outcome("__init__", a, o)
              /\ res' = NoRaster
              /\ nmem' = nmem + o.mems
              /\ nops' = nops + 1
              /\ UNCHANGED files

\* r = Raster.from_array(data, transform, crs, nodata)
FromArray ==
    /\ ~rst.alive
    /\ nops < MaxOps
    /\ \E a \in FromArrayCalls :
          LET o == from_array(a.data, a.transform, a.crs, a.nodata, nmem + 1)
          IN  /\ rst' = o.self
              /\ ret' = Outcome("from_array", a, o)
              /\ res' = NoRaster
              /\ nmem' = nmem + o.mems
              /\ nops' = nops + 1
              /\ UNCHANGED files

\* r.load(bands)
Load ==
    /\ rst.alive
    /\ nops < MaxOps
    /\ \E b \in BandsArgs :
          LET o == load(rst, b)
          IN  /\ rst' = o.self
              /\ ret' = Outcome("load", [bands |-> b], o)
              /\ res' = NoRaster
              /\ nops' = nops + 1
              /\ UNCHANGED <<files, nmem>>

\* r.crop(cropGeom, mode)
Crop ==
    /\ rst.alive
    /\ nops < MaxOps
    /\ \E a \in CropCalls :
          LET o == crop(rst, a.cropGeom, a.mode, nmem + 1)
          IN  /\ rst' = o.self
              /\ ret' = Outcome("crop", a, o)
              /\ res' = NoRaster
              /\ nmem' = nmem + o.mems
              /\ nops' = nops + 1
              /\ UNCHANGED files

\* r.shift(xoff, yoff)
Shift ==
    /\ rst.alive
    /\ nops < MaxOps
    /\ \E xoff \in XOffs, yoff \in YOffs :
          LET o == shift(rst, xoff, yoff, nmem + 1)
          IN  /\ rst' = o.self
              /\ ret' = Outcome("shift", [xoff |-> xoff, yoff |-> yoff], o)
              /\ res' = NoRaster
              /\ nmem' = nmem + o.mems
              /\ nops' = nops + 1
              /\ UNCHANGED files

\* r.reproject(dst_crs, dst_size, dst_bounds, dst_res, nodata, dtype)
Reproject ==
    /\ rst.alive
    /\ nops < MaxOps
    /\ \E a \in ReprojectCalls :
          LET o == reproject(rst, a.dst_crs, a.dst_size, a.dst_bounds, a.dst_res, a.nodata, a.dtype,
                             nmem + 1)
          IN  /\ rst' = o.self
              /\ ret' = Outcome("reproject", a, o)
              /\ res' = o.res
              /\ nmem' = nmem + o.mems
              /\ nops' = nops + 1
              /\ UNCHANGED files

\* r.save(filename, driver, dtype, blank_value)
Save ==
    /\ rst.alive
    /\ nops < MaxOps
    /\ \E dt \in DtypeArgs, bv \in BlankArgs :
          LET o == save(rst, OutPath, "GTiff", dt, bv)
          IN  /\ rst' = o.self
              /\ ret' = Outcome("save", [filename |-> OutPath, dtype |-> dt, blank_value |-> bv], o)
              /\ res' = NoRaster
              /\ files' = IF IsNone(o.file) THEN files ELSE o.file
              /\ nops' = nops + 1
              /\ UNCHANGED nmem

\* r.intersection(rst)
Intersection ==
    /\ rst.alive
    /\ nops < MaxOps
    /\ \E a \in IntersectionArgs :
          LET o == intersection(rst, a, nmem + 1)
          IN  /\ rst' = o.self
              /\ ret' = Outcome("intersection", [rst |-> a], o) @@ [value |-> o.value]
              /\ res' = NoRaster
              /\ nmem' = nmem + o.mems
              /\ nops' = nops + 1
              /\ UNCHANGED files

Next == Construct \/ FromArray \/ Load \/ Crop \/ Shift \/ Reproject \/ Save \/ Intersection

Spec == Init /\ [][Next]_vars

-----------------------------------------------------------------------------
(* Properties.  A call is a step of the specification: unprimed variables   *)
(* are the state before the call, primed ones the state after it, and ret'  *)
(* tells which call it was and how it ended.                                *)

Returned(r, op) == r.op = op /\ r.outcome = "return"
LibraryError(r) == r.outcome = "raise" /\ r.exc \in {"rasterio.ValueError", "rasterio.CRSError"}
IsNumber(bv) == ~IsNone(bv) /\ Val(bv).type \in {"int", "float"}

\* C1: every attribute mirrored onto the Raster (the default attributes and
\* those requested through attrs) equals that attribute of the current
\* handle self.ds.
C1_MirroredAttrsAgree ==
    rst.alive => \A n \in DOMAIN rst.attr : rst.attr[n] = GetAttr(rst.ds, n)

\* C2: a successful crop or shift of a Raster read from disk with
\* matches_disk True leaves matches_disk False, the Raster a successful
\* reproject returns has matches_disk False, and a False flag stays False
\* under load, crop, shift and save.
C2_Step ==
    LET fromDisk == rst.alive /\ ~IsNone(rst.filename) /\ rst.matches_disk = "True"
    IN  /\ fromDisk /\ (Returned(ret', "crop") \/ Returned(ret', "shift"))
            => rst'.matches_disk = "False"
        /\ fromDisk /\ Returned(ret', "reproject")
            => res'.alive /\ res'.matches_disk = "False"
        /\ rst.alive /\ rst.matches_disk = "False" /\ ret'.op \in {"load", "crop", "shift", "save"}
            => rst'.matches_disk = "False"
C2_GeometryInvalidatesMatchesDisk == [][C2_Step]_vars

\* C3: a Raster made by from_array, or constructed from a MemoryFile, has
\* filename None and matches_disk None, and keeps them.
C3_NoProvenanceWithoutDisk ==
    /\ Returned(ret, "from_array") => IsNone(rst.filename) /\ rst.matches_disk = "None"
    /\ Returned(ret, "__init__") /\ ret.args.filename.type = "MemoryFile"
        => IsNone(rst.filename) /\ rst.matches_disk = "None"
    /\ rst.alive /\ IsNone(rst.filename) => rst.matches_disk = "None"
    /\ res.alive => IsNone(res.filename) /\ res.matches_disk = "None"

\* C4: the constructor given neither a path nor a MemoryFile raises
\* ValueError before any dataset is opened and leaves no object.
C4_UnrecognisedInputIsValueError ==
    ret.op = "__init__" /\ ret.args.filename.type \notin {"str", "MemoryFile"}
        => ret.outcome = "raise" /\ ret.exc = "ValueError" /\ ret.calls = <<>> /\ ~rst.alive

\* C5: save with data None and no blank_value raises, whether dtype is given
\* or not, and creates no file.
C5_Step ==
    ret'.op = "save" /\ IsNone(rst.data) /\ IsNone(ret'.args.blank_value)
        => ret'.outcome = "raise" /\ files' = files
C5_SaveWithoutDataRaises == [][C5_Step]_vars

\* C6: save with an int or float blank_value returns having written that
\* constant to every pixel of every band of a file with the handle's count,
\* height and width, whether or not data is loaded and dtype is given, and
\* leaves the Raster as it was.
C6_Step ==
    ret'.op = "save" /\ IsNumber(ret'.args.blank_value)
        => /\ ret'.outcome = "return"
           /\ ~IsNone(files')
           /\ LET f == Val(files')
              IN  /\ f.count = rst.ds.count /\ f.height = rst.ds.height /\ f.width = rst.ds.width
                  /\ Len(f.pix) = f.count
                  /\ \A b \in 1..f.count : /\ Len(f.pix[b]) = f.height
                                           /\ \A i \in 1..f.height :
                                                 /\ Len(f.pix[b][i]) = f.width
                                                 /\ \A j \in 1..f.width :
                                                       f.pix[b][i][j] = Val(ret'.args.blank_value).v
           /\ rst' = rst
C6_BlankValueFillsEveryPixel == [][C6_Step]_vars

\* what shift must leave alone: everything of the handle but the name of its
\* MemoryFile and the translation terms, and the loaded pixels
SameButOrigin(a, b) ==
    /\ a.ds.transform[1] = b.ds.transform[1] /\ a.ds.transform[2] = b.ds.transform[2]
    /\ a.ds.transform[4] = b.ds.transform[4] /\ a.ds.transform[5] = b.ds.transform[5]
    /\ a.ds.width = b.ds.width /\ a.ds.height = b.ds.height /\ a.ds.count = b.ds.count
    /\ a.ds.crs = b.ds.crs /\ a.ds.nodata = b.ds.nodata /\ a.ds.dtype = b.ds.dtype
    /\ a.ds.driver = b.ds.driver
    /\ a.data = b.data /\ a.nbands = b.nbands
\* the origin of b is the origin of a moved by (dx, dy), on the handle and on
\* the mirrored attribute
MovedBy(a, b, dx, dy) ==
    /\ b.ds.transform[3] = a.ds.transform[3] + dx
    /\ b.ds.transform[6] = a.ds.transform[6] + dy
    /\ b.attr["transform"] = b.ds.transform

\* C7: a successful shift(xoff, yoff) of a Raster holding pixel data moves
\* the origin by (xoff, yoff) and changes nothing else of the geometry, the
\* band count, CRS, nodata, dtype or pixel values; a second shift(c, d) then
\* gives the transform and data of one shift(xoff + c, yoff + d), and
\* shift(-xoff, -yoff) gives back the original transform.
C7_Step ==
    Returned(ret', "shift") /\ ~IsNone(rst.data)
        => LET a == ret'.args.xoff
               b == ret'.args.yoff
               back == shift(rst', -a, -b, nmem' + 1)
           IN  /\ SameButOrigin(rst, rst')
               /\ MovedBy(rst, rst', a, b)
               /\ ~IsNone(rst'.data) /\ rst'.ds.pix = Val(rst'.data).a
               /\ \A c \in XOffs, d \in YOffs :
                     LET two == shift(rst', c, d, nmem' + 1)
                         one == shift(rst, a + c, b + d, nmem' + 1)
                     IN  /\ two.outcome = "return" /\ one.outcome = "return"
                         /\ two.self.ds.transform = one.self.ds.transform
                         /\ two.self.attr["transform"] = one.self.attr["transform"]
                         /\ two.self.data = one.self.data
               /\ back.outcome = "return"
               /\ back.self.ds.transform = rst.ds.transform
               /\ back.self.attr["transform"] = rst.attr["transform"]
C8_Step ==
    /\ rst.alive /\ IsNone(rst.data)
    /\ \/ ret'.op \in {"reproject", "shift"}
       \/ ret'.op = "crop" /\ ret'.args.mode = "match_extent"
    => \/ ret'.outcome = "raise" /\ rst' = rst /\ ~res'.alive
       \/ ret'.outcome = "return" /\ ~IsNone(rst'.data)
C8_NoWorkFromAbsentPixels == [][C8_Step]_vars

C8_Witness ==
    /\ rst.alive /\ IsNone(rst.data) /\ ~rst.isLoaded /\ rst.matches_disk = "None"
    /\ ret.op = "shift" /\ ret.outcome = "raise"
    /\ rst.ds = DiskDs(1)

\* C9: reproject on a loaded Raster with an accepted combination of options
\* (not both dst_size and dst_res; dst_bounds absent, a BoundingBox or a
\* dict) returns a new Raster, never None and never an exception of the
\* adapter's own code, and leaves the Raster it is called on as it was.
C9_Step ==
    /\ rst.alive /\ rst.isLoaded /\ ~IsNone(rst.data)
    /\ ret'.op = "reproject"
    /\ IsNone(ret'.args.dst_size) \/ IsNone(ret'.args.dst_res)
    => /\ rst' = rst
       /\ \/ ret'.outcome = "return" /\ ret'.val = "Raster" /\ res'.alive
          \/ LibraryError(ret')
C9_ReprojectReturnsRaster == [][C9_Step]_vars

\* C10: reproject with both dst_size and dst_res raises ValueError before
\* the CRS is parsed or a warp is delegated, whatever the other arguments
\* and whether or not data is loaded, and leaves the Raster unchanged.
C10_Step ==
    ret'.op = "reproject" /\ ~IsNone(ret'.args.dst_size) /\ ~IsNone(ret'.args.dst_res)
        => /\ ret'.outcome = "raise" /\ ret'.exc = "ValueError"
           /\ ret'.calls = <<>>
           /\ rst' = rst /\ ~res'.alive /\ nmem' = nmem /\ files' = files
C10_SizeAndResolutionConflict == [][C10_Step]_vars

C10_Witness ==
    /\ ret.op = "reproject" /\ ret.outcome = "raise" /\ ret.exc = "ValueError"
    /\ ~IsNone(ret.args.dst_size) /\ ~IsNone(ret.args.dst_res)
    /\ ret.args.dst_crs.s = "bogus"
    /\ IsNone(rst.data)

\* a box given in the coordinates of crs `from`, in those of crs `to`
ProjectBox(box, from, to) ==
    <<box[1] + Easting(to) - Easting(from), box[2], box[3] + Easting(to) - Easting(from), box[4]>>
\* the Raster that the argument of intersection stands for
ArgRaster(a) ==
    IF a.type = "str"
    THEN RasterInit(PathArg(a.path), None, FALSE, BandsNone, 0).self
    ELSE a.r
Overlap(a, b) == <<Max(a[1], b[1]), Max(a[2], b[2]), Min(a[3], b[3]), Min(a[4], b[4])>>

\* C11: intersection(rst) returns the overlap of the two extents in self's
\* coordinate system, (max xmin, max ymin, min xmax, min ymax), when it has
\* positive area, and otherwise warns and returns 0; with different CRSs the
\* extent is still in self's system; self is not modified, and for rasters
\* of one CRS a.intersection(b) = b.intersection(a).
C11_Step ==
    /\ ret'.op = "intersection"
    /\ ret'.args.rst.type = "Raster" \/ ret'.args.rst.path = InPath
    => LET other == ArgRaster(ret'.args.rst)
           box   == Overlap(DsBounds(rst.ds), ProjectBox(DsBounds(other.ds), other.ds.crs, rst.ds.crs))
           back  == intersection(other, [type |-> "Raster", path |-> "", r |-> rst], nmem' + 1)
       IN  /\ ret'.outcome = "return"
           /\ IF box[1] < box[3] /\ box[2] < box[4]
              THEN ret'.val = "tuple" /\ ret'.value = box
              ELSE /\ ret'.val = "int" /\ ret'.value = <<0>>
                   /\ "warnings.warn" \in SeqToSet(ret'.calls)
           /\ rst' = rst
           /\ other.ds.crs = rst.ds.crs => back.value = ret'.value
C11_IntersectionIsOverlap == [][C11_Step]_vars

\* the number of bands a loaded array holds
BandsHeld(arr) == IF arr.ndim = 3 THEN NBands(arr) ELSE 1

\* C12: after any sequence of construction, load, crop and shift the
\* loaded-state bookkeeping agrees with the handle: isLoaded is True exactly
\* when data is not None, and data, when present, has the height and width
\* of the current dataset handle and nbands bands.
C12_LoadedStateConsistent ==
    rst.alive =>
        /\ rst.isLoaded <=> ~IsNone(rst.data)
        /\ ~IsNone(rst.data) =>
              /\ NRows(Val(rst.data)) = rst.ds.height
              /\ NCols(Val(rst.data)) = rst.ds.width
              /\ rst.nbands = Some(BandsHeld(Val(rst.data)))

====
